---- MODULE Spec2Model ----
(***************************************************************************)
(* A model of the cryptocurrency market dashboard: the retrying live-data  *)
(* client of controller/exchange_controller.py, the controller and the     *)
(* CoinGecko provider (controller/controller.py,                           *)
(* model/CryptoDataProvider.py), and the Streamlit page of app.py.         *)
(***************************************************************************)
EXTENDS Integers, Sequences, FiniteSets, TLC

VARIABLES
    \* exchange_controller.get_live_data, one call in progress
    pc,           \* "loop" while the while-loop runs, "done" once the call has ended
    max_retries,  \* the max_retries argument of the call
    retries,      \* the local counter
    responses,    \* what the upstream answered to each requests.get, in order
    sleeps,       \* the argument of each time.sleep, in order
    result,       \* what the call returned (or the exception that left it)
    \* controller.py and the providers, called directly
    call,         \* the last call: its arguments, the request it sent, what it returned
    \* app.py
    now,            \* the clock, in seconds
    cache,          \* st.cache_data's entries of get_cached_live_data, by currency
    session_state,  \* st.session_state of each browser session
    liveFetches,    \* every call of get_live_data made so far: currency, time, result
    screen,         \* what the last run of the page did and showed
    \* load_config and the functions that build a request URL
    config_loaded,  \* the module-level _config_loaded flag of each module
    loads,          \* every call of load_config so far: module, file, result, warning
    sent,           \* the last request built: who built it, for which endpoint and base URL
    \* the formatting functions, called directly
    formatted,      \* the last call: the function, its arguments, what it returned
    \* app.py, the chat popover of one session
    chat_history,   \* st.session_state.chat_history
    submitted       \* every prompt submitted so far, in order

retryVars == <<pc, max_retries, retries, responses, sleeps, result>>
ctlVars == <<call>>
appVars == <<now, cache, session_state, liveFetches, screen>>
cfgVars == <<config_loaded, loads, sent>>
fmtVars == <<formatted>>
chatVars == <<chat_history, submitted>>

vars == <<pc, max_retries, retries, responses, sleeps, result, call,
          now, cache, session_state, liveFetches, screen,
          config_loaded, loads, sent, formatted, chat_history, submitted>>

----------------------------------------------------------------------------
(* Python values *)

None == [kind |-> "None"]
NotReturned == [kind |-> "running"]
Table(rows) == [kind |-> "table", rows |-> rows]
Raised(exc) == [kind |-> "raised", exc |-> exc]

(* What the upstream can do with one HTTP GET.  A transport error is       *)
(* requests.get raising a RequestException (ConnectionError, Timeout).     *)
Response(status, body) == [kind |-> "response", status |-> status, body |-> body]

\* A JSON body: a list of rows (named by id; the market rows of a currency at
\* a time carry both), a JSON object of scalars (an error document), which
\* pandas cannot turn into a table, or the body of an error answer.
Rows(id) == [shape |-> "rows", id |-> id, cur |-> "-", at |-> 0]
ScalarBody == [shape |-> "scalars", id |-> "error", cur |-> "-", at |-> 0]
NoBody == [shape |-> "none", id |-> "none", cur |-> "-", at |-> 0]

\* a JSON list of rows that do not have the five OHLC fields
RaggedBody == [shape |-> "ragged", id |-> "short rows", cur |-> "-", at |-> 0]

TransportError == [kind |-> "error", status |-> 0, body |-> NoBody]

\* JSON bodies of the coins/markets endpoint
MarketBodies == {Rows("rowsA"), Rows("rowsB")}

\* JSON bodies of the OHLC endpoint: a list of candles, and the empty list
OhlcBodies == {Rows("candles"), Rows("empty")}

ErrorStatuses == {404, 429, 500}

OutcomesWith(bodies) ==
    {Response(200, b) : b \in bodies}
        \cup {Response(s, NoBody) : s \in ErrorStatuses}
        \cup {TransportError}

Outcomes == OutcomesWith(MarketBodies \cup {ScalarBody})

\* response.raise_for_status(): HTTPError for every 4xx and 5xx status
raise_for_status(o) == o.status >= 400 /\ o.status < 600

\* pd.DataFrame(response.json()): ValueError for a dict of scalars
DataFrame(body) ==
    IF body = ScalarBody THEN Raised("ValueError") ELSE Table(body)

----------------------------------------------------------------------------
(* app.py: the state of the page                                           *)

\* @st.cache_data(ttl=60)
TTL == 60

\* st.selectbox("Select Currency", ["usd", "eur"])
Currencies == {"usd", "eur"}

\* one browser session at a time; NewBrowserSession replaces it by a new one
Sessions == {"s1"}

NoTime == -1
Absent == [kind |-> "absent"]

MaxTime == 90
TickStep == TTL \div 2

NoEntry == [present |-> FALSE, at |-> 0, value |-> None]

NewSession ==
    [last_refresh_time |-> NoTime, live_data |-> Absent, selected_currency |-> "-"]

NoScreen ==
    [rendered |-> FALSE, session |-> "-", at |-> 0, currency |-> "-",
     live |-> None, rateLimitWarning |-> FALSE, liveTable |-> FALSE,
     lastRefreshed |-> NoTime, candlestickSection |-> FALSE,
     ohlcFetched |-> FALSE, url_days |-> 0, hist |-> None, chart |-> FALSE,
     metrics |-> FALSE, noHistWarning |-> FALSE, exception |-> "none"]

AppFresh ==
    /\ now = 0
    /\ cache = [c \in Currencies |-> NoEntry]
    /\ session_state = [s \in Sessions |-> NewSession]
    /\ liveFetches = {}
    /\ screen = NoScreen

----------------------------------------------------------------------------
(* model/data_treatment.py and model/model.py: load_config                 *)

\* the modules that define a load_config, each with its own _config_loaded
ConfigModules == {"data_treatment", "model"}

\* what the call finds at config/config.json
ConfigFiles == {"absent", "base_url", "no base_url", "invalid JSON"}

\* the default of load_config, also CryptoDataProvider.BASE_URL
DefaultBaseUrl == "https://api.coingecko.com/api/v3/"

\* the base_url of a configuration file that has one
CustomBaseUrl == "https://proxy.example/api/v3/"

\* a dict, as far as its base_url key goes
Dict(has, url) == [kind |-> "dict", has_base_url |-> has, base_url |-> url]

\* json.load(file): the file's document, or JSONDecodeError
json_load(file) ==
    CASE file = "base_url" -> Dict(TRUE, CustomBaseUrl)
      [] file = "no base_url" -> Dict(FALSE, "-")
      [] file = "invalid JSON" -> Raised("JSONDecodeError")

\* a faulty variant: the flag is never set, so every absence is reported
load_config_forgetful(file, loaded) ==
    IF file # "absent"
    THEN [ret |-> json_load(file), warned |-> FALSE, loaded |-> loaded]
    ELSE [ret |-> Dict(TRUE, DefaultBaseUrl), warned |-> ~loaded,
          loaded |-> loaded]

\* data_treatment.load_config, called with the file in state file and the
\* module's flag at loaded: what it returns (or raises), whether it logs
\* "Config file not found. Using defaults.", and the flag afterwards
load_config(file, loaded) ==
    IF file # "absent"
    THEN [ret |-> json_load(file), warned |-> FALSE, loaded |-> loaded]
    ELSE [ret |-> Dict(TRUE, DefaultBaseUrl), warned |-> ~loaded,
          loaded |-> TRUE]

\* model.load_config
model_load_config(file, loaded) ==
    IF file # "absent"
    THEN [ret |-> json_load(file), warned |-> FALSE, loaded |-> loaded]
    ELSE [ret |-> Dict(TRUE, DefaultBaseUrl), warned |-> ~loaded,
          loaded |-> TRUE]

\* the load_config of module m
LoadConfigOf(m, file, loaded) ==
    IF m = "model" THEN model_load_config(file, loaded)
    ELSE load_config(file, loaded)

\* one entry of loads
Loaded(m, file, r) ==
    [module |-> m, file |-> file, ret |-> r.ret, warned |-> r.warned]

NoRequest ==
    [op |-> "none", endpoint |-> "-", file |-> "-", base |-> "-",
     exc |-> "none", got |-> NotReturned, ret |-> NotReturned]

MaxLoads == 3

CfgFresh ==
    /\ config_loaded = [m \in ConfigModules |-> FALSE]
    /\ loads = <<>>
    /\ sent = NoRequest

----------------------------------------------------------------------------
(* the formatting functions and the chat popover: their state             *)

\* a str
Str(v) == [kind |-> "str", v |-> v]

NoFormat ==
    [op |-> "none", impl |-> "none", arg |-> None, currency |-> "-",
     once |-> NotReturned, twice |-> NotReturned]

FmtFresh == formatted = NoFormat

\* if "chat_history" not in st.session_state: st.session_state.chat_history = []
ChatFresh ==
    /\ chat_history = <<>>
    /\ submitted = <<>>

----------------------------------------------------------------------------
(* exchange_controller.get_live_data(currency, max_retries)                *)

DefaultMaxRetries == 5
MaxRetriesArg == 6

NoCall ==
    [op |-> "none", impl |-> "none", days |-> [num |-> FALSE, v |-> 0],
     got |-> NotReturned, url_days |-> 0, ret |-> NotReturned]

RetryInit ==
    /\ call = NoCall
    /\ AppFresh
    /\ CfgFresh
    /\ FmtFresh
    /\ ChatFresh
    /\ pc = "loop"
    /\ max_retries \in 0..MaxRetriesArg
    /\ retries = 0
    /\ responses = <<>>
    /\ sleeps = <<>>
    /\ result = NotReturned

\* a faulty variant: one pass too many
LoopGuardOffByOne == retries <= max_retries

\* while retries < max_retries:
LoopGuard == retries < max_retries

\* wait_time = 2 ** retries, taken before retries += 1
WaitTime429(r) == 2 ^ r

\* retries += 1; time.sleep(2 ** retries)
WaitTimeException(r) == 2 ^ (r + 1)

\* a faulty variant: the rate-limit answer ends the call instead of being retried
Attempt429GiveUp ==
    /\ pc = "loop"
    /\ LoopGuard
    /\ responses' = Append(responses, Response(429, NoBody))
    /\ result' = None
    /\ pc' = "done"
    /\ UNCHANGED <<max_retries, retries, sleeps, ctlVars, appVars, cfgVars, fmtVars, chatVars>>

\* status 429: sleep, count the retry, continue
Attempt429 ==
    /\ pc = "loop"
    /\ LoopGuard
    /\ \E o \in Outcomes :
        /\ o.kind = "response"
        /\ o.status = 429
        /\ responses' = Append(responses, o)
    /\ sleeps' = Append(sleeps, WaitTime429(retries))
    /\ retries' = retries + 1
    /\ UNCHANGED <<pc, max_retries, result, ctlVars, appVars, cfgVars, fmtVars, chatVars>>

\* requests.get raised, or raise_for_status raised: the except branch
AttemptException ==
    /\ pc = "loop"
    /\ LoopGuard
    /\ \E o \in Outcomes :
        /\ \/ o.kind = "error"
           \/ o.kind = "response" /\ o.status # 429 /\ raise_for_status(o)
        /\ responses' = Append(responses, o)
    /\ retries' = retries + 1
    /\ sleeps' = Append(sleeps, WaitTimeException(retries))
    /\ UNCHANGED <<pc, max_retries, result, ctlVars, appVars, cfgVars, fmtVars, chatVars>>

\* a good status: the table is built and returned (or pandas raises, and the
\* ValueError, which is no RequestException, leaves the call)
AttemptOk ==
    /\ pc = "loop"
    /\ LoopGuard
    /\ \E o \in Outcomes :
        /\ o.kind = "response"
        /\ o.status # 429
        /\ ~raise_for_status(o)
        /\ responses' = Append(responses, o)
        /\ result' = DataFrame(o.body)
    /\ pc' = "done"
    /\ UNCHANGED <<max_retries, retries, sleeps, ctlVars, appVars, cfgVars, fmtVars, chatVars>>

\* the loop ends: "Max retries reached", return None
Exhausted ==
    /\ pc = "loop"
    /\ ~LoopGuard
    /\ result' = None
    /\ pc' = "done"
    /\ UNCHANGED <<max_retries, retries, responses, sleeps, ctlVars, appVars, cfgVars, fmtVars, chatVars>>

RetryNext ==
    \/ Attempt429
    \/ AttemptException
    \/ AttemptOk
    \/ Exhausted

SpecRetry == RetryInit /\ [][RetryNext]_vars

IsPrefix(p, s) == Len(p) <= Len(s) /\ SubSeq(s, 1, Len(p)) = p

RateLimitedTwiceThenOk(b) ==
    <<Response(429, NoBody), Response(429, NoBody), Response(200, b)>>

\* C1: with the default retry budget, an upstream answering 429, 429, 200
\* gets exactly three requests and two backoff sleeps, and the call returns
\* the table of the third answer's body: the call is still running after the
\* first and the second answer, and has returned that table after the third.
C1_RateLimitedTwiceThenOk ==
    max_retries = DefaultMaxRetries =>
        \A b \in MarketBodies :
            /\ (Len(responses) < 3 /\ IsPrefix(responses, RateLimitedTwiceThenOk(b)))
                    => (pc = "loop" /\ Len(sleeps) = Len(responses))
            /\ IsPrefix(RateLimitedTwiceThenOk(b), responses)
                    => /\ pc = "done"
                       /\ Len(responses) = 3
                       /\ Len(sleeps) = 2
                       /\ result = Table(b)

C1_Witness ==
    /\ pc = "done"
    /\ max_retries = DefaultMaxRetries
    /\ responses = RateLimitedTwiceThenOk(Rows("rowsA"))
    /\ Len(sleeps) = 2
    /\ result = Table(Rows("rowsA"))

AllAnswered500 ==
    \A i \in 1..Len(responses) : responses[i] = Response(500, NoBody)

\* C2: when every request is answered 500, the call makes exactly max_retries
\* requests and then returns None; no exception leaves it.
C2_Always500ExhaustsBudget ==
    AllAnswered500 =>
        /\ result.kind # "raised"
        /\ Len(responses) <= max_retries
        /\ pc = "done" => (Len(responses) = max_retries /\ result = None)

C2_Witness ==
    /\ pc = "done"
    /\ max_retries = DefaultMaxRetries
    /\ Len(responses) = DefaultMaxRetries
    /\ AllAnswered500
    /\ result = None

Permanent4xx(o) ==
    o.kind = "response" /\ o.status >= 400 /\ o.status < 500 /\ o.status # 429

\* C3: a 4xx answer other than 429 ends the call at once: it is the last
\* request, and no backoff sleep follows it.
C3_Permanent4xxFailsImmediately ==
    \A i \in 1..Len(responses) :
        Permanent4xx(responses[i]) =>
            /\ Len(responses) = i
            /\ Len(sleeps) < i
            /\ pc = "done"

Transient(o) ==
    o.kind = "error" \/ o.status = 429 \/ (o.status >= 500 /\ o.status < 600)

\* C4: the i-th backoff sleep, taken after the i-th failed attempt (i-1
\* failures before it), lasts 2^(i-1) seconds whichever way that attempt
\* failed: 429, 5xx or a transport error.
C4_SameBackoffOnBothPaths ==
    \A i \in 1..Len(sleeps) :
        Transient(responses[i]) => sleeps[i] = 2 ^ (i - 1)

----------------------------------------------------------------------------
(* model/CryptoDataProvider.py, and its earlier copies in                  *)
(* model/crypto_data.py and model/model.py                                 *)

VALID_OHLC_DAYS == <<1, 7, 14, 30, 90, 180, 365, "max">>

\* VALID_OHLC_DAYS[:-1]
AllButLast(seq) == SubSeq(seq, 1, Len(seq) - 1)

Abs(x) == IF x < 0 THEN -x ELSE x

\* a faulty variant of min: the last of the equally small candidates wins
RECURSIVE MinByKeyLast(_, _, _)
MinByKeyLast(seq, days, best) ==
    IF seq = <<>> THEN best
    ELSE MinByKeyLast(Tail(seq), days,
            IF Abs(Head(seq) - days) <= Abs(best - days) THEN Head(seq) ELSE best)

\* Python's min(iterable, key=lambda x: abs(x - days)): the candidates are
\* visited in order, and a later one replaces the best only when its key is
\* strictly smaller
RECURSIVE MinByKey(_, _, _)
MinByKey(seq, days, best) ==
    IF seq = <<>> THEN best
    ELSE MinByKey(Tail(seq), days,
            IF Abs(Head(seq) - days) < Abs(best - days) THEN Head(seq) ELSE best)

\* a faulty variant: the request is rounded down to the valid range below it
closest_valid_days_down(days) ==
    LET c == AllButLast(VALID_OHLC_DAYS)
        below == {i \in 1..Len(c) : c[i] <= days}
    IN  IF below = {} THEN c[1]
        ELSE c[CHOOSE i \in below : \A j \in below : j <= i]

\* CryptoDataProvider.closest_valid_days
closest_valid_days(days) ==
    LET c == AllButLast(VALID_OHLC_DAYS)
    IN  MinByKey(Tail(c), days, Head(c))

\* crypto_data.closest_valid_days
crypto_data_closest_valid_days(days) ==
    LET c == AllButLast(VALID_OHLC_DAYS)
    IN  MinByKey(Tail(c), days, Head(c))

\* model.closest_valid_days
model_closest_valid_days(days) ==
    LET c == AllButLast(VALID_OHLC_DAYS)
    IN  MinByKey(Tail(c), days, Head(c))

\* requests_retry_session(retries=3, status_forcelist=(500, 502, 503, 504))
RetryTotal == 3
status_forcelist == {500, 502, 503, 504}

\* What the upstream does with the first request of a session.get and with
\* each of its retries.
Scripts(outcomes) == [1..(RetryTotal + 1) -> outcomes]

\* The scripts in which the upstream fails the first k requests one way and
\* answers the rest another way.
TwoPhaseScripts(outcomes) ==
    {[i \in 1..(RetryTotal + 1) |-> IF i <= k THEN a ELSE b] :
        k \in 0..(RetryTotal + 1),
        a \in {TransportError, Response(500, NoBody)},
        b \in outcomes}

\* session.get(url) through the HTTPAdapter with Retry(total=retries): a
\* transport error or a status of the forcelist is retried, up to RetryTotal
\* times, and then raised (ConnectionError, RetryError); any other answer is
\* returned as it is.
RECURSIVE SessionGetFrom(_, _)
SessionGetFrom(script, i) ==
    LET o == script[i]
    IN  IF o.kind = "error"
        THEN IF i > RetryTotal THEN Raised("ConnectionError")
             ELSE SessionGetFrom(script, i + 1)
        ELSE IF o.status \in status_forcelist
        THEN IF i > RetryTotal THEN Raised("RetryError")
             ELSE SessionGetFrom(script, i + 1)
        ELSE o

SessionGet(script) == SessionGetFrom(script, 1)

\* the subclasses of requests.RequestException that can arrive
RequestException == {"ConnectionError", "RetryError", "HTTPError"}

\* session.get followed by response.raise_for_status()
GetChecked(script) ==
    LET got == SessionGet(script)
    IN  IF got.kind = "raised" THEN got
        ELSE IF raise_for_status(got) THEN Raised("HTTPError")
        ELSE got

\* CryptoDataProvider.fetch_crypto_data: a RequestException becomes None, any
\* other exception leaves the call
fetch_crypto_data(script) ==
    LET got == GetChecked(script)
    IN  IF got.kind = "raised"
        THEN IF got.exc \in RequestException THEN None ELSE got
        ELSE DataFrame(got.body)

\* pd.DataFrame(data, columns=["timestamp", "open", "high", "low", "close"]):
\* ValueError for rows of another width
OhlcFrame(body) ==
    IF body = RaggedBody THEN Raised("ValueError") ELSE Table(body)

\* an argument of the days parameter: a number, or something that is none
Number(d) == [num |-> TRUE, v |-> d]
NotANumber == [num |-> FALSE, v |-> 0]

\* the days parameter of the URL that fetch_candlestick_data requests; 0
\* when the call sends no request
url_days_of(days) == IF days.num THEN closest_valid_days(days.v) ELSE 0

\* the columns of pd.DataFrame(data, columns=[...]): the ones asked for,
\* whatever the number of rows
OhlcColumns(df) ==
    IF df.kind = "table" THEN <<"timestamp", "open", "high", "low", "close">>
    ELSE <<>>

\* a faulty variant: an empty list of candles is reported like a failure
fetch_candlestick_data_conflating(days, script) ==
    IF ~days.num THEN Raised("TypeError")
    ELSE LET got == GetChecked(script)
         IN  IF got.kind = "raised"
             THEN IF got.exc \in RequestException THEN None ELSE got
             ELSE IF got.body = Rows("empty") THEN None
             ELSE OhlcFrame(got.body)

\* CryptoDataProvider.fetch_candlestick_data: abs(x - days) raises TypeError
\* for a days that is no number, before any request
fetch_candlestick_data(days, script) ==
    IF ~days.num THEN Raised("TypeError")
    ELSE LET got == GetChecked(script)
         IN  IF got.kind = "raised"
             THEN IF got.exc \in RequestException THEN None ELSE got
             ELSE OhlcFrame(got.body)

\* a faulty variant: the controller catches only the request's own exceptions
get_live_data_narrow(script) ==
    LET r == fetch_crypto_data(script)
    IN  IF r.kind = "raised" /\ r.exc \in RequestException THEN None ELSE r

\* controller.get_live_data: try / except Exception: return None
get_live_data(script) ==
    LET r == fetch_crypto_data(script)
    IN  IF r.kind = "raised" THEN None ELSE r

\* controller.get_candlestick_data: try / except Exception: return None
get_candlestick_data(days, script) ==
    LET r == fetch_candlestick_data(days, script)
    IN  IF r.kind = "raised" THEN None ELSE r

\* the numeric members of VALID_OHLC_DAYS
ValidNumericDays ==
    {VALID_OHLC_DAYS[i] : i \in 1..(Len(VALID_OHLC_DAYS) - 1)}

Nearest(m, d) ==
    /\ m \in ValidNumericDays
    /\ \A x \in ValidNumericDays : Abs(m - d) <= Abs(x - d)

MaxDays == 400
MaxNegDays == 3
Days == (-MaxNegDays)..MaxDays

Implementations == {"CryptoDataProvider", "crypto_data", "model"}

CtlInit ==
    /\ call = NoCall
    /\ AppFresh
    /\ CfgFresh
    /\ FmtFresh
    /\ ChatFresh
    /\ pc = "done"
    /\ max_retries = 0
    /\ retries = 0
    /\ responses = <<>>
    /\ sleeps = <<>>
    /\ result = NotReturned

\* Each function is called once, from the state in which nothing was called:
\* none of them keeps state between calls.

\* what the session of a call got in the end
Got(script) == GetChecked(script)

CallGetLiveData ==
    /\ call = NoCall
    /\ \E script \in Scripts(Outcomes) :
        call' = [op |-> "get_live_data", impl |-> "controller",
                 days |-> NotANumber, got |-> Got(script), url_days |-> 0,
                 ret |-> get_live_data(script)]
    /\ UNCHANGED <<retryVars, appVars, cfgVars, fmtVars, chatVars>>

CallGetCandlestickData ==
    /\ call = NoCall
    /\ \E d \in {Number(n) : n \in Days} \cup {NotANumber},
          script \in TwoPhaseScripts(OutcomesWith(OhlcBodies \cup {RaggedBody})) :
        call' = [op |-> "get_candlestick_data", impl |-> "controller",
                 days |-> d,
                 got |-> IF d.num THEN Got(script) ELSE Raised("TypeError"),
                 url_days |-> url_days_of(d),
                 ret |-> get_candlestick_data(d, script)]
    /\ UNCHANGED <<retryVars, appVars, cfgVars, fmtVars, chatVars>>

CallClosestValidDays ==
    /\ call = NoCall
    /\ \E impl \in Implementations, n \in Days :
        call' = [op |-> "closest_valid_days", impl |-> impl,
                 days |-> Number(n), got |-> NotReturned, url_days |-> 0,
                 ret |-> [kind |-> "int",
                          v |-> CASE impl = "CryptoDataProvider" -> closest_valid_days(n)
                                  [] impl = "crypto_data" -> crypto_data_closest_valid_days(n)
                                  [] impl = "model" -> model_closest_valid_days(n)]]
    /\ UNCHANGED <<retryVars, appVars, cfgVars, fmtVars, chatVars>>

CtlNext ==
    \/ CallGetLiveData
    \/ CallGetCandlestickData
    \/ CallClosestValidDays

SpecController == CtlInit /\ [][CtlNext]_vars

----------------------------------------------------------------------------
(* app.py: run_app                                                         *)

\* the upstream's market rows in currency c at the present time
Market(c, t) == [shape |-> "rows", id |-> "market", cur |-> c, at |-> t]
MarketNow(c) == Market(c, now)

\* the scripts in which the upstream does the same with every request
ConstantScripts(outcomes) ==
    {[i \in 1..(RetryTotal + 1) |-> o] : o \in outcomes}

\* what the upstream does while the page runs: it answers, it rate-limits,
\* or it cannot be reached
PageOutcomes(bodies) ==
    {Response(200, b) : b \in bodies}
        \cup {Response(429, NoBody), TransportError}

\* the time ranges selected in the sidebar, of VALID_OHLC_DAYS[:-1]
SelectedDays == {1, 30}

\* a faulty variant: nothing is ever served from the cache
CacheHitNever(c) == FALSE

\* a faulty variant: a None result is not kept, so the next run fetches again
CacheHitValuesOnly(c) ==
    cache[c].present /\ cache[c].value # None /\ now - cache[c].at < TTL

\* @st.cache_data(ttl=60): an entry is served until ttl seconds after the
\* call that stored it, and the function's body runs only on a miss
CacheHit(c) == cache[c].present /\ now - cache[c].at < TTL

\* a faulty variant: the page goes on without live data
HaltsNever(live) == FALSE

\* if live_data is None: st.warning(...); st.stop()
HaltsOnAbsent(live) == live = None

\* def create_candlestick_chart(data, coin_name) of view/view.py
CreateChartParams == 2

\* create_candlestick_chart(candlestick_data, coin_id, currency.upper())
CreateChartArgs == 3

Figure == [kind |-> "figure"]

\* view.create_candlestick_chart called with nargs positional arguments: a
\* figure (the empty chart for no data), or Python's TypeError for a call
\* that does not fit the parameters
create_candlestick_chart(data, nargs) ==
    IF nargs # CreateChartParams THEN Raised("TypeError") ELSE Figure

\* candlestick_data.empty
Empty(df) == df.rows.id = "empty"

\* display_candlestick_chart, after the fetch: what it shows for the
\* historical data it got
display_candlestick_chart(hist) ==
    IF hist # None /\ ~Empty(hist)
    THEN LET fig == create_candlestick_chart(hist, CreateChartArgs)
         IN  IF fig.kind = "raised"
             THEN [chart |-> FALSE, metrics |-> FALSE, noHistWarning |-> FALSE,
                   exception |-> fig.exc]
             ELSE [chart |-> TRUE, metrics |-> TRUE, noHistWarning |-> FALSE,
                   exception |-> "none"]
    ELSE [chart |-> FALSE, metrics |-> FALSE, noHistWarning |-> TRUE,
          exception |-> "none"]

AppInit ==
    /\ AppFresh
    /\ CfgFresh
    /\ FmtFresh
    /\ ChatFresh
    /\ call = NoCall
    /\ pc = "done"
    /\ max_retries = 0
    /\ retries = 0
    /\ responses = <<>>
    /\ sleeps = <<>>
    /\ result = NotReturned

\* One run of the page in session s, with the currency and the time range
\* selected in the sidebar, and what the upstream does with the two fetches.
Render ==
    \E s \in Sessions, c \in Currencies, d \in SelectedDays :
      \E liveScript \in ConstantScripts(PageOutcomes({MarketNow(c)})),
         ohlcScript \in ConstantScripts(PageOutcomes(OhlcBodies)) :
        LET \* if "last_refresh_time" not in st.session_state
            lrt0 == IF session_state[s].last_refresh_time = NoTime THEN now
                    ELSE session_state[s].last_refresh_time
            \* get_cached_live_data(selected_currency)
            hit == CacheHit(c)
            fetched == get_live_data(liveScript)
            live == IF hit THEN cache[c].value ELSE fetched
            lrt == IF hit THEN lrt0 ELSE now
            halted == HaltsOnAbsent(live)
            \* live_data['name'] of None raises TypeError
            broken == ~halted /\ live = None
            \* display_candlestick_chart
            hist == get_candlestick_data(Number(d), ohlcScript)
            shown == display_candlestick_chart(hist)
        IN  /\ cache' = IF hit THEN cache
                        ELSE [cache EXCEPT ![c] =
                                [present |-> TRUE, at |-> now, value |-> fetched]]
            /\ liveFetches' = IF hit THEN liveFetches
                              ELSE liveFetches \cup
                                    {[cur |-> c, at |-> now, value |-> fetched]}
            /\ session_state' = [session_state EXCEPT ![s] =
                    [last_refresh_time |-> lrt,
                     selected_currency |-> c,
                     live_data |-> IF halted THEN @.live_data ELSE live]]
            /\ screen' =
                IF halted \/ broken
                THEN [NoScreen EXCEPT
                        !.rendered = TRUE, !.session = s, !.at = now,
                        !.currency = c, !.live = live,
                        !.rateLimitWarning = halted,
                        !.exception = IF broken THEN "TypeError" ELSE "none"]
                ELSE [rendered |-> TRUE, session |-> s, at |-> now,
                      currency |-> c, live |-> live,
                      rateLimitWarning |-> FALSE, liveTable |-> TRUE,
                      lastRefreshed |-> lrt, candlestickSection |-> TRUE,
                      ohlcFetched |-> TRUE, url_days |-> url_days_of(Number(d)),
                      hist |-> hist, chart |-> shown.chart,
                      metrics |-> shown.metrics,
                      noHistWarning |-> shown.noHistWarning,
                      exception |-> shown.exception]
            /\ UNCHANGED <<now, retryVars, ctlVars, cfgVars, fmtVars, chatVars>>

\* The browser session ends and a new one starts: a fresh st.session_state,
\* while the cache, which belongs to the server process, stays.
NewBrowserSession ==
    /\ \E s \in Sessions :
        /\ session_state[s] # NewSession
        /\ session_state' = [session_state EXCEPT ![s] = NewSession]
    /\ UNCHANGED <<now, cache, liveFetches, screen, retryVars, ctlVars, cfgVars, fmtVars, chatVars>>

\* time passes between two runs of the page
Tick ==
    /\ now + TickStep <= MaxTime
    /\ now' = now + TickStep
    /\ UNCHANGED <<cache, session_state, liveFetches, screen, retryVars, ctlVars, cfgVars, fmtVars, chatVars>>

AppNext ==
    \/ Render
    \/ NewBrowserSession
    \/ Tick

SpecApp == AppInit /\ [][AppNext]_vars

----------------------------------------------------------------------------
(* load_config and the request URLs: model/data_treatment.py,              *)
(* model/crypto_data.py, model/model.py, model/CryptoDataProvider.py,      *)
(* controller/exchange_controller.py                                       *)

CfgInit ==
    /\ CfgFresh
    /\ FmtFresh
    /\ ChatFresh
    /\ AppFresh
    /\ call = NoCall
    /\ pc = "done"
    /\ max_retries = 0
    /\ retries = 0
    /\ responses = <<>>
    /\ sleeps = <<>>
    /\ result = NotReturned

\* base_url = config["base_url"] after config = load_config(): the string,
\* KeyError for a dict without the key, or the exception of load_config
base_url_of(cfg) ==
    IF cfg.kind = "raised" THEN cfg
    ELSE IF ~cfg.has_base_url THEN Raised("KeyError")
    ELSE [kind |-> "str", v |-> cfg.base_url]

\* load_config() called directly, with the file in any state
CallLoadConfig ==
    /\ Len(loads) < MaxLoads
    /\ \E m \in ConfigModules, file \in ConfigFiles :
        LET r == LoadConfigOf(m, file, config_loaded[m])
        IN  /\ config_loaded' = [config_loaded EXCEPT ![m] = r.loaded]
            /\ loads' = Append(loads, Loaded(m, file, r))
    /\ UNCHANGED <<sent, retryVars, ctlVars, appVars, fmtVars, chatVars>>

\* A function that starts with config = load_config() and
\* base_url = config["base_url"], both outside its try: it raises what they
\* raise, and otherwise requests base_url + endpoint and returns ret
ConfiguredRequest(op, m, endpoint, file, got, ret) ==
    LET r == LoadConfigOf(m, file, config_loaded[m])
        base == base_url_of(r.ret)
    IN  /\ config_loaded' = [config_loaded EXCEPT ![m] = r.loaded]
        /\ loads' = Append(loads, Loaded(m, file, r))
        /\ sent' = IF base.kind = "raised"
                   THEN [op |-> op, endpoint |-> endpoint, file |-> file,
                         base |-> "-", exc |-> base.exc, got |-> NotReturned,
                         ret |-> base]
                   ELSE [op |-> op, endpoint |-> endpoint, file |-> file,
                         base |-> base.v, exc |-> "none", got |-> got,
                         ret |-> ret]

\* def fetch_candlestick_data(coin_id="bitcoin", currency="usd", days=30)
DefaultDays == 30

\* Each of the functions below is called once, from a state in which none of
\* them was called; load_config may have been called any number of times.

\* a function that builds its URL from a constant
FixedRequest(op, endpoint, file, base, got, ret) ==
    sent' = [op |-> op, endpoint |-> endpoint, file |-> file, base |-> base,
             exc |-> "none", got |-> got, ret |-> ret]

\* what the upstream does with the requests of one call when the URL is
\* what matters: it answers with rows, with no rows, or not at all
UrlScripts(bodies) ==
    TwoPhaseScripts({Response(200, b) : b \in bodies} \cup {TransportError})

\* exchange_controller.get_live_data up to its loop: the URL that the loop
\* requests
ExchangeGetLiveDataUrl ==
    /\ sent = NoRequest
    /\ Len(loads) < MaxLoads
    /\ \E file \in ConfigFiles :
        ConfiguredRequest("exchange_controller.get_live_data", "data_treatment",
                          "coins/markets", file, NotReturned, NotReturned)
    /\ UNCHANGED <<retryVars, ctlVars, appVars, fmtVars, chatVars>>

\* crypto_data.fetch_crypto_data
CryptoDataFetchCryptoData ==
    /\ sent = NoRequest
    /\ Len(loads) < MaxLoads
    /\ \E file \in ConfigFiles, script \in UrlScripts({Rows("rowsA")}) :
        ConfiguredRequest("crypto_data.fetch_crypto_data", "data_treatment",
                          "coins/markets", file, Got(script),
                          fetch_crypto_data(script))
    /\ UNCHANGED <<retryVars, ctlVars, appVars, fmtVars, chatVars>>

\* crypto_data.fetch_candlestick_data, also reached through
\* exchange_controller.get_historical_data
CryptoDataFetchCandlestickData ==
    /\ sent = NoRequest
    /\ Len(loads) < MaxLoads
    /\ \E file \in ConfigFiles, script \in UrlScripts(OhlcBodies) :
        ConfiguredRequest("crypto_data.fetch_candlestick_data", "data_treatment",
                          "coins/{id}/ohlc", file, Got(script),
                          fetch_candlestick_data(Number(DefaultDays), script))
    /\ UNCHANGED <<retryVars, ctlVars, appVars, fmtVars, chatVars>>

\* model.fetch_crypto_data
ModelFetchCryptoData ==
    /\ sent = NoRequest
    /\ Len(loads) < MaxLoads
    /\ \E file \in ConfigFiles, script \in UrlScripts({Rows("rowsA")}) :
        ConfiguredRequest("model.fetch_crypto_data", "model",
                          "coins/markets", file, Got(script),
                          fetch_crypto_data(script))
    /\ UNCHANGED <<retryVars, ctlVars, appVars, fmtVars, chatVars>>

\* model.fetch_candlestick_data
ModelFetchCandlestickData ==
    /\ sent = NoRequest
    /\ Len(loads) < MaxLoads
    /\ \E file \in ConfigFiles, script \in UrlScripts(OhlcBodies) :
        ConfiguredRequest("model.fetch_candlestick_data", "model",
                          "coins/{id}/ohlc", file, Got(script),
                          fetch_candlestick_data(Number(DefaultDays), script))
    /\ UNCHANGED <<retryVars, ctlVars, appVars, fmtVars, chatVars>>

\* CryptoDataProvider.fetch_candlestick_data, called directly
ProviderFetchCandlestickData ==
    /\ sent = NoRequest
    /\ \E file \in ConfigFiles, script \in UrlScripts(OhlcBodies) :
        FixedRequest("CryptoDataProvider.fetch_candlestick_data",
                     "coins/{id}/ohlc", file, DefaultBaseUrl, Got(script),
                     fetch_candlestick_data(Number(DefaultDays), script))
    /\ UNCHANGED <<config_loaded, loads, retryVars, ctlVars, appVars, fmtVars, chatVars>>

\* controller.get_live_data, the page's live fetch:
\* CryptoDataProvider.fetch_crypto_data requests BASE_URL + coins/markets
ControllerGetLiveData ==
    /\ sent = NoRequest
    /\ \E file \in ConfigFiles, script \in UrlScripts({Rows("rowsA")}) :
        FixedRequest("controller.get_live_data", "coins/markets", file,
                     DefaultBaseUrl, Got(script), get_live_data(script))
    /\ UNCHANGED <<config_loaded, loads, retryVars, ctlVars, appVars, fmtVars, chatVars>>

\* controller.get_candlestick_data, the page's historical fetch:
\* CryptoDataProvider.fetch_candlestick_data requests BASE_URL + coins/{id}/ohlc
ControllerGetCandlestickData ==
    /\ sent = NoRequest
    /\ \E file \in ConfigFiles, script \in UrlScripts(OhlcBodies) :
        FixedRequest("controller.get_candlestick_data", "coins/{id}/ohlc", file,
                     DefaultBaseUrl, Got(script),
                     get_candlestick_data(Number(DefaultDays), script))
    /\ UNCHANGED <<config_loaded, loads, retryVars, ctlVars, appVars, fmtVars, chatVars>>

\* JSON bodies of the global endpoint: {"data": {"market_cap_percentage":
\* {...}}}, {"data": {...}} without that field, and an object without "data"
DominanceBody ==
    [shape |-> "object", id |-> "data.market_cap_percentage", cur |-> "-", at |-> 0]
NoPercentageBody == [shape |-> "object", id |-> "data", cur |-> "-", at |-> 0]
NoDataBody == [shape |-> "object", id |-> "status", cur |-> "-", at |-> 0]

GlobalBodies == {DominanceBody, NoPercentageBody, NoDataBody}

\* the dict {symbol: dominance_percentage} of a body
Dominance(body) == [kind |-> "dict", of |-> body]

\* exchange_controller.get_market_dominance, with o what the upstream does
\* with its one requests.get: a RequestException becomes None,
\* data["data"] raises KeyError for a body without "data", a body without
\* the percentages gives None
get_market_dominance(o) ==
    IF o.kind = "error" \/ raise_for_status(o) THEN None
    ELSE IF o.body = NoDataBody THEN Raised("KeyError")
    ELSE IF o.body = NoPercentageBody THEN None
    ELSE Dominance(o.body)

\* exchange_controller.get_market_dominance requests a constant URL
CallGetMarketDominance ==
    /\ sent = NoRequest
    /\ \E file \in ConfigFiles, o \in OutcomesWith(GlobalBodies) :
        FixedRequest("exchange_controller.get_market_dominance", "global", file,
                     DefaultBaseUrl, o, get_market_dominance(o))
    /\ UNCHANGED <<config_loaded, loads, retryVars, ctlVars, appVars, fmtVars, chatVars>>

CfgNext ==
    \/ CallLoadConfig
    \/ ExchangeGetLiveDataUrl
    \/ CryptoDataFetchCryptoData
    \/ CryptoDataFetchCandlestickData
    \/ ModelFetchCryptoData
    \/ ModelFetchCandlestickData
    \/ ProviderFetchCandlestickData
    \/ ControllerGetLiveData
    \/ ControllerGetCandlestickData
    \/ CallGetMarketDominance

SpecConfig == CfgInit /\ [][CfgNext]_vars

----------------------------------------------------------------------------
(* Formatting: model/MarketDataFormatter.py, model/model.py, and           *)
(* prepare_live_data_table of app.py                                       *)

\* Currency symbols are written as their code points: "$", the euro sign,
\* the pound sign, and the three and two characters that
\* MarketDataFormatter.py holds for "eur" and "gbp".
Dollar == <<36>>
Euro == <<8364>>
Pound == <<163>>
FormatterEur == <<226, 8218, 172>>
FormatterGbp == <<194, 163>>
NoSymbol == <<>>

\* A float with at most two decimals is written as its number of
\* hundredths.
Float(cents) == [kind |-> "float", cents |-> cents]

Digits == <<"0", "1", "2", "3", "4", "5", "6", "7", "8", "9">>
Digit(d) == Digits[d + 1]

\* str(n) for a natural number
RECURSIVE Decimal(_)
Decimal(n) == IF n < 10 THEN Digit(n) ELSE Decimal(n \div 10) \o Digit(n % 10)

\* a group of three digits
Pad3(n) == Digit(n \div 100) \o Digit((n \div 10) % 10) \o Digit(n % 10)

\* the "," option of the format specification: groups of three digits
RECURSIVE Grouped(_)
Grouped(n) ==
    IF n < 1000 THEN Decimal(n)
    ELSE Grouped(n \div 1000) \o "," \o Pad3(n % 1000)

\* f"{x:,.2f}"
Fixed2(cents) ==
    LET a == Abs(cents)
    IN  (IF cents < 0 THEN "-" ELSE "") \o Grouped(a \div 100) \o "."
            \o Digit((a \div 10) % 10) \o Digit(a % 10)

\* f"{x:,.0f}": rounded to the nearest integer, a half to the even one
Fixed0(cents) ==
    LET a == Abs(cents)
        q == a \div 100
        r == a % 100
        n == IF r > 50 \/ (r = 50 /\ q % 2 = 1) THEN q + 1 ELSE q
    IN  (IF cents < 0 /\ n > 0 THEN "-" ELSE "") \o Grouped(n)

\* the str f"{symbol}{number}"
Text(symbol, number) == [kind |-> "str", symbol |-> symbol, number |-> number]

\* MarketDataFormatter.format_price(price, currency)
format_price(price, currency) ==
    LET symbol ==
            CASE currency \in {"usd", "USD"} -> Dollar
              [] currency \in {"eur", "EUR"} -> FormatterEur
              [] currency \in {"gbp", "GBP"} -> FormatterGbp
              [] OTHER -> Dollar
    IN  Text(symbol, Fixed2(price.cents))

\* model.format_price(price, currency)
model_format_price(price, currency) ==
    LET symbol ==
            CASE currency \in {"usd", "USD"} -> Dollar
              [] currency \in {"eur", "EUR"} -> Euro
              [] currency \in {"gbp", "GBP"} -> Pound
              [] OTHER -> Dollar
    IN  Text(symbol, Fixed2(price.cents))

\* A cell of a table: a number (in hundredths), a str (with the currency
\* symbol it starts with, if any), or a date.
NumberCell(cents) ==
    [type |-> "number", cents |-> cents, symbol |-> NoSymbol, text |-> ""]
TextCell(symbol, text) ==
    [type |-> "str", cents |-> 0, symbol |-> symbol, text |-> text]
DateCell(text) ==
    [type |-> "date", cents |-> 0, symbol |-> NoSymbol, text |-> text]
NoCell == [type |-> "none", cents |-> 0, symbol |-> NoSymbol, text |-> ""]

\* A table: its columns in order, and the cells of its rows, which are all
\* alike here, so that one row stands for them (none for a table of no rows).
Frame(nrows, cols) == [kind |-> "frame", nrows |-> nrows, cols |-> cols]
Column(name, cell) == [name |-> name, cell |-> cell]
ColumnNames(df) == {df.cols[i].name : i \in DOMAIN df.cols}
CellOf(df, name) == df.cols[CHOOSE i \in DOMAIN df.cols : df.cols[i].name = name].cell

\* columns of the coins/markets rows, in the upstream's order
RawColumns ==
    <<"id", "name", "current_price", "market_cap", "market_cap_rank",
      "total_volume", "circulating_supply", "ath", "ath_date">>

\* one row of the upstream: the cell of each column
RawCell(name) ==
    CASE name \in {"id", "name"} -> TextCell(NoSymbol, "bitcoin")
      [] name = "ath_date" -> TextCell(NoSymbol, "2025-10-06T18:57:42.558Z")
      [] name = "market_cap_rank" -> NumberCell(100)
      [] name = "current_price" -> NumberCell(123450)
      [] name = "ath" -> NumberCell(12608000)
      [] OTHER -> NumberCell(1234567800)

\* the raw table that has the columns of the set names, and nrows rows
RawTable(names, nrows) ==
    LET present == SelectSeq(RawColumns, LAMBDA c : c \in names)
    IN  Frame(nrows, [i \in DOMAIN present |->
            Column(present[i],
                   IF nrows = 0 THEN NoCell ELSE RawCell(present[i]))])

\* column_mapping, in the order of its keys
column_mapping ==
    << <<"market_cap_rank", "Rank">>, <<"name", "name">>, <<"image", "image">>,
       <<"symbol", "symbol">>, <<"current_price", "current_price">>,
       <<"market_cap", "market_cap">>,
       <<"circulating_supply", "Circulating Supply">>,
       <<"total_volume", "total_volume">>, <<"ath", "All Time High">>,
       <<"ath_date", "All Time High Date">> >>

\* df[col].apply(lambda x: f"{symbol}{x:,.2f}") on one cell: the format
\* specification raises ValueError for a str
ApplyFixed2(symbol, cell) ==
    IF cell.type = "number" THEN TextCell(symbol, Fixed2(cell.cents))
    ELSE [cell EXCEPT !.type = "ValueError"]

\* df[col].apply(lambda x: f"{x:,.0f}") on one cell
ApplyFixed0(cell) ==
    IF cell.type = "number" THEN TextCell(NoSymbol, Fixed0(cell.cents))
    ELSE [cell EXCEPT !.type = "ValueError"]

\* pd.to_datetime(df[col]).dt.date on one cell: the date of the timestamp
\* that the text gives
ToDate(cell) == DateCell(cell.text)

\* app.prepare_live_data_table(data, currency_symbol): the mapped columns
\* that the table has, in the mapping's order and renamed; the date column
\* converted; the price, amount and supply columns formatted. A table of no
\* rows has no cell to convert or format.
prepare_live_data_table(data, currency_symbol) ==
    LET present == SelectSeq(column_mapping, LAMBDA kv : kv[1] \in ColumnNames(data))
        renamed == [i \in DOMAIN present |->
                        Column(present[i][2], CellOf(data, present[i][1]))]
        symbol == IF currency_symbol = "USD" THEN Dollar ELSE Euro
        Formatted(c) ==
            CASE c.name = "All Time High Date" -> ToDate(c.cell)
              [] c.name \in {"current_price", "All Time High"} ->
                    ApplyFixed2(symbol, c.cell)
              [] c.name \in {"market_cap", "total_volume"} -> ApplyFixed0(c.cell)
              [] c.name = "Circulating Supply" -> ApplyFixed2(NoSymbol, c.cell)
              [] OTHER -> c.cell
        cols == [i \in DOMAIN renamed |->
                    Column(renamed[i].name, Formatted(renamed[i]))]
    IN  IF data.nrows = 0 THEN Frame(0, renamed)
        ELSE IF \E i \in DOMAIN cols : cols[i].cell.type = "ValueError"
        THEN Raised("ValueError")
        ELSE Frame(data.nrows, cols)

\* a function applied to its own result, when it returned one
Again(once, currency_symbol) ==
    IF once.kind = "raised" THEN once
    ELSE prepare_live_data_table(once, currency_symbol)

\* prices, in hundredths
Prices == {0, 5, 99999, 100000, 123450, 123456789, -123450}

\* the codes of the symbols dict, and one that it does not have
CurrencyCodes == {"usd", "eur", "gbp", "USD", "EUR", "GBP", "chf"}

\* the modules that define a format_price
Formatters == {"MarketDataFormatter", "model"}

FmtInit ==
    /\ FmtFresh
    /\ CfgFresh
    /\ ChatFresh
    /\ AppFresh
    /\ call = NoCall
    /\ pc = "done"
    /\ max_retries = 0
    /\ retries = 0
    /\ responses = <<>>
    /\ sleeps = <<>>
    /\ result = NotReturned

\* Each function is called once, from the state in which nothing was called:
\* none of them keeps state between calls.

CallFormatPrice ==
    /\ formatted = NoFormat
    /\ \E impl \in Formatters, cents \in Prices, currency \in CurrencyCodes :
        formatted' =
            [op |-> "format_price", impl |-> impl, arg |-> Float(cents),
             currency |-> currency,
             once |-> IF impl = "model"
                      THEN model_format_price(Float(cents), currency)
                      ELSE format_price(Float(cents), currency),
             twice |-> NotReturned]
    /\ UNCHANGED <<retryVars, ctlVars, appVars, cfgVars, chatVars>>

\* prepare_live_data_table(data, currency_symbol), and the same applied to
\* what it returned
CallPrepareLiveDataTable ==
    /\ formatted = NoFormat
    /\ \E names \in SUBSET {RawColumns[i] : i \in DOMAIN RawColumns},
          nrows \in 0..1, currency_symbol \in {"USD", "EUR"} :
        LET data == RawTable(names, nrows)
            once == prepare_live_data_table(data, currency_symbol)
        IN  formatted' =
                [op |-> "prepare_live_data_table", impl |-> "app", arg |-> data,
                 currency |-> currency_symbol, once |-> once,
                 twice |-> Again(once, currency_symbol)]
    /\ UNCHANGED <<retryVars, ctlVars, appVars, cfgVars, chatVars>>

FmtNext ==
    \/ CallFormatPrice
    \/ CallPrepareLiveDataTable

SpecFormat == FmtInit /\ [][FmtNext]_vars

----------------------------------------------------------------------------
(* The chat popover of app.py, controller.ask_chatbot and                  *)
(* GeminiChat.get_response                                                 *)

\* what is typed into st.chat_input
Prompts == {"price of bitcoin?", "convert to gbp"}

\* the chat service at the time of a question: GeminiChat found no model
\* (model_name is None), generate_content raises, or it answers
ChatServices == {"no model", "raises", "answers"}

MaxPrompts == 3

NoModelText == Str("Sorry, no Gemini model is available at the moment.")
ErrorGeneratingText == Str("Error generating response: ...")
SorryText == Str("Sorry, an error occurred: ...")

\* response.text
Answer(question) == [kind |-> "str", v |-> "answer", to |-> question]

\* GeminiChat.get_response: the text for no model, the answer, or the text
\* of the exception that generate_content raised
get_response(service, question) ==
    IF service = "no model" THEN NoModelText
    ELSE IF service = "raises" THEN ErrorGeneratingText
    ELSE Answer(question)

\* controller.ask_chatbot: try / except Exception around get_response
ask_chatbot(service, question) ==
    LET r == get_response(service, question)
    IN  IF r.kind = "raised" THEN SorryText ELSE r

Entry(role, content) == [role |-> role, content |-> content]

ChatInit ==
    /\ ChatFresh
    /\ FmtFresh
    /\ CfgFresh
    /\ AppFresh
    /\ call = NoCall
    /\ pc = "done"
    /\ max_retries = 0
    /\ retries = 0
    /\ responses = <<>>
    /\ sleeps = <<>>
    /\ result = NotReturned

\* a faulty variant: only an answer of the service is stored
SubmitPromptAnswersOnly ==
    /\ Len(submitted) < MaxPrompts
    /\ \E prompt \in Prompts, service \in ChatServices :
        LET response == ask_chatbot(service, prompt)
        IN  /\ chat_history' =
                IF response.v # "answer"
                THEN Append(chat_history, Entry("user", Str(prompt)))
                ELSE chat_history \o <<Entry("user", Str(prompt)),
                                       Entry("assistant", response)>>
            /\ submitted' = Append(submitted, prompt)
    /\ UNCHANGED <<retryVars, ctlVars, appVars, cfgVars, fmtVars>>

\* The run of the page that a submitted prompt starts: the user entry is
\* appended, ask_chatbot is called, the assistant entry is appended, and
\* st.rerun() ends the run. An exception out of ask_chatbot would end the
\* run before the second append.
SubmitPrompt ==
    /\ Len(submitted) < MaxPrompts
    /\ \E prompt \in Prompts, service \in ChatServices :
        LET response == ask_chatbot(service, prompt)
        IN  /\ chat_history' =
                IF response.kind = "raised"
                THEN Append(chat_history, Entry("user", Str(prompt)))
                ELSE chat_history \o <<Entry("user", Str(prompt)),
                                       Entry("assistant", response)>>
            /\ submitted' = Append(submitted, prompt)
    /\ UNCHANGED <<retryVars, ctlVars, appVars, cfgVars, fmtVars>>

\* the browser session ends and a new one starts, with no chat_history
NewChatSession ==
    /\ submitted # <<>>
    /\ chat_history' = <<>>
    /\ submitted' = <<>>
    /\ UNCHANGED <<retryVars, ctlVars, appVars, cfgVars, fmtVars>>

ChatNext ==
    \/ SubmitPrompt
    \/ NewChatSession

SpecChat == ChatInit /\ [][ChatNext]_vars

\* C5: whatever the upstream does (transport error, error status, retries
\* exhausted, a body of the wrong shape), controller.get_live_data and
\* controller.get_candlestick_data return a table or None: no exception
\* leaves them.
C5_NoExceptionPastController ==
    call.op \in {"get_live_data", "get_candlestick_data"} =>
        call.ret.kind \in {"table", "None"}

C5_Witness ==
    /\ call.op = "get_live_data"
    /\ call.got = Response(200, ScalarBody)
    /\ call.ret = None

\* C6: closest_valid_days(d) is a numeric member of VALID_OHLC_DAYS, never
\* "max", and no member is nearer to d; closest_valid_days(30) = 30 and
\* closest_valid_days(0) = 1; the days parameter of every OHLC request is
\* such a value.
C6_SnapIsNearestValidDay ==
    /\ (call.op = "closest_valid_days" /\ call.impl = "CryptoDataProvider") =>
        /\ Nearest(call.ret.v, call.days.v)
        /\ call.days.v = 30 => call.ret.v = 30
        /\ call.days.v = 0 => call.ret.v = 1
    /\ (call.op = "get_candlestick_data" /\ call.days.num) =>
        Nearest(call.url_days, call.days.v)

C6_Witness ==
    /\ call.op = "get_candlestick_data"
    /\ call.days = Number(45)
    /\ call.url_days = 30
    /\ call.ret = Table(Rows("candles"))

\* C7: when d is equally far from two members of VALID_OHLC_DAYS,
\* closest_valid_days(d) is the one declared first, the smaller: 1 for d = 4,
\* 30 for d = 60.
C7_TieGoesToSmaller ==
    call.op = "closest_valid_days" =>
        /\ \A x \in ValidNumericDays :
            Abs(x - call.days.v) = Abs(call.ret.v - call.days.v) => call.ret.v <= x
        /\ call.days.v = 4 => call.ret.v = 1
        /\ call.days.v = 60 => call.ret.v = 30

C7_Witness ==
    /\ call.op = "closest_valid_days"
    /\ call.impl = "model"
    /\ call.days = Number(60)
    /\ call.ret.v = 30

\* C8: two upstream live-market fetches (calls of get_live_data, each with
\* the retries of its session) for the same currency are at least TTL
\* seconds apart, and a run of the page that asks for a currency fetched
\* less than TTL seconds before gets the result of that fetch.
C8_OneFetchPerCurrencyPerTtl ==
    /\ \A f, g \in liveFetches :
        (f.cur = g.cur /\ f # g) => Abs(f.at - g.at) >= TTL
    /\ screen.rendered =>
        \A f \in liveFetches :
            (f.cur = screen.currency /\ f.at <= screen.at /\ screen.at - f.at < TTL)
                => screen.live = f.value

C8_Witness ==
    /\ [cur |-> "usd", at |-> 0, value |-> Table(Market("usd", 0))] \in liveFetches
    /\ [cur |-> "usd", at |-> 60, value |-> Table(Market("usd", 60))] \in liveFetches
    /\ screen.rendered
    /\ screen.currency = "usd"
    /\ screen.at = 90
    /\ screen.live = Table(Market("usd", 60))

\* C9: a run of the page whose live-market result is None shows the
\* rate-limit warning and stops: no live table, no candlestick section, no
\* OHLC fetch, and the session's stored live_data is left as it was.
C9_AbsentLiveDataHaltsRender ==
    [][(screen' # screen /\ screen'.rendered /\ screen'.live = None) =>
        /\ screen'.rateLimitWarning
        /\ ~screen'.liveTable
        /\ ~screen'.candlestickSection
        /\ ~screen'.ohlcFetched
        /\ screen'.exception = "none"
        /\ session_state'[screen'.session].live_data
                = session_state[screen'.session].live_data]_vars

C9_Witness ==
    /\ screen.rendered
    /\ screen.live = None
    /\ screen.rateLimitWarning
    /\ screen.currency = "eur"
    /\ session_state[screen.session].live_data = Table(Market("usd", 0))

\* C10: display_candlestick_chart shows the "No historical data found"
\* warning, and neither chart nor metrics, when the historical result is None
\* or has no rows, and shows chart and metrics, and no warning, when it has
\* rows; it does one or the other.
C10_ChartOrWarning ==
    screen.candlestickSection =>
        IF screen.hist = None \/ Empty(screen.hist)
        THEN screen.noHistWarning /\ ~screen.chart /\ ~screen.metrics
        ELSE screen.chart /\ screen.metrics /\ ~screen.noHistWarning

\* C11: over any sequence of calls of a load_config, whatever the file's
\* state at each call, the "Config file not found" warning is logged at most
\* once, and a call logs it exactly when it is the first call of that
\* function to find the file absent.
C11_WarnsOnceAtFirstAbsence ==
    /\ \A m \in ConfigModules :
        Cardinality({i \in 1..Len(loads) :
                        loads[i].module = m /\ loads[i].warned}) <= 1
    /\ \A i \in 1..Len(loads) :
        loads[i].warned <=>
            /\ loads[i].file = "absent"
            /\ \A j \in 1..(i - 1) :
                ~(loads[j].module = loads[i].module /\ loads[j].file = "absent")

C11_Witness ==
    /\ Len(loads) = 3
    /\ \A i \in 1..3 : loads[i].module = "data_treatment"
    /\ loads[1].file = "base_url" /\ ~loads[1].warned
    /\ loads[2].file = "absent" /\ loads[2].warned
    /\ loads[3].file = "absent" /\ ~loads[3].warned

\* C12: load_config never fails: whatever the state of the configuration
\* file (absent, with a base_url, without one, not valid JSON), it returns a
\* configuration, and every function that starts with load_config() gets its
\* base URL from it without an exception.
C12_LoadConfigNeverFails ==
    /\ \A i \in 1..Len(loads) :
        /\ loads[i].ret.kind = "dict"
        /\ base_url_of(loads[i].ret).kind = "str"
    /\ sent.exc = "none"

\* C13: when the configuration file provides a base_url, every request
\* (coins/markets, coins/{id}/ohlc, global) goes to that base URL, and a
\* request goes to the fixed public endpoint only when the file is absent.
C13_RequestsGoToConfiguredBaseUrl ==
    (sent.op # "none" /\ sent.exc = "none") =>
        /\ sent.file = "base_url" => sent.base = CustomBaseUrl
        /\ sent.base = DefaultBaseUrl => sent.file = "absent"

\* C14: prepare_live_data_table is idempotent: applied to its own result
\* with the same currency symbol it succeeds and returns the same table as
\* the first application, with the same columns and the same cells.
C14_PrepareIsIdempotent ==
    (formatted.op = "prepare_live_data_table" /\ formatted.once.kind = "frame") =>
        /\ formatted.twice.kind = "frame"
        /\ formatted.twice = formatted.once

CorrectSymbol(currency) ==
    CASE currency \in {"usd", "USD"} -> Dollar
      [] currency \in {"eur", "EUR"} -> Euro
      [] currency \in {"gbp", "GBP"} -> Pound

\* C17: for the currency codes usd, eur, gbp and their upper-case forms,
\* format_price(1234.5, c) is the currency's symbol ($, the euro sign, the
\* pound sign) followed by "1,234.50"; for every price the result is that
\* symbol followed by the value with thousands separators and two decimals.
C17_FormatPriceSymbolAndNumber ==
    (formatted.op = "format_price" /\ formatted.currency # "chf") =>
        /\ formatted.once.symbol = CorrectSymbol(formatted.currency)
        /\ formatted.arg.cents = 123450 => formatted.once.number = "1,234.50"
        /\ formatted.arg.cents = 0 => formatted.once.number = "0.00"
        /\ formatted.arg.cents = 5 => formatted.once.number = "0.05"
        /\ formatted.arg.cents = 99999 => formatted.once.number = "999.99"
        /\ formatted.arg.cents = 100000 => formatted.once.number = "1,000.00"
        /\ formatted.arg.cents = 123456789 => formatted.once.number = "1,234,567.89"

\* C15: fetch_candlestick_data tells its two no-data outcomes apart: None
\* when the request failed (the retries exhausted, or an error status), and
\* a table of no rows with the columns timestamp, open, high, low, close, not
\* None, when the upstream answered with an empty list of candles.
C15_AbsentVersusEmpty ==
    (sent.op \in {"CryptoDataProvider.fetch_candlestick_data",
                  "crypto_data.fetch_candlestick_data",
                  "model.fetch_candlestick_data"} /\ sent.exc = "none") =>
        /\ sent.got.kind = "raised" => sent.ret = None
        /\ sent.got = Response(200, Rows("empty")) =>
            /\ sent.ret # None
            /\ sent.ret.kind = "table"
            /\ Empty(sent.ret)
            /\ OhlcColumns(sent.ret) = <<"timestamp", "open", "high", "low", "close">>

C15_Witness ==
    /\ sent.op = "crypto_data.fetch_candlestick_data"
    /\ sent.file = "absent"
    /\ sent.got = Response(200, Rows("empty"))
    /\ sent.ret = Table(Rows("empty"))

\* C16: get_market_dominance returns the map of percentages when the global
\* endpoint answers with one, and None for every failure of the endpoint: a
\* transport error, an error status, a body without "data" or without
\* "market_cap_percentage"; no exception leaves it.
C16_DominanceOrAbsent ==
    sent.op = "exchange_controller.get_market_dominance" =>
        /\ sent.ret.kind # "raised"
        /\ IF sent.got = Response(200, DominanceBody)
           THEN sent.ret = Dominance(DominanceBody)
           ELSE sent.ret = None

Succeeded(o) == o.kind = "response" /\ o.status = 200

\* C18: whatever max_retries and whatever the upstream answers,
\* exchange_controller.get_live_data sends at most max_retries requests, no
\* request follows a 200, and the call ends with a table exactly when a
\* request was answered 200 and with None exactly when none of its
\* max_retries requests was (none at all for max_retries = 0).
C18_BoundedRequestsTableOrNone ==
    /\ Len(responses) <= max_retries
    /\ \A i \in 1..Len(responses) :
        Succeeded(responses[i]) => (i = Len(responses) /\ pc = "done")
    /\ pc = "done" =>
        /\ result.kind = "table" <=>
                \E i \in 1..Len(responses) : Succeeded(responses[i])
        /\ result = None <=>
                /\ Len(responses) = max_retries
                /\ \A i \in 1..Len(responses) : ~Succeeded(responses[i])

\* C19: after any sequence of chat submissions in one session, chat_history
\* alternates user and assistant entries, beginning with a user entry: the
\* i-th submitted prompt is its (2i-1)-th entry, followed by one assistant
\* entry holding a text, also when the chat service raised or has no model.
C19_ChatHistoryAlternates ==
    /\ Len(chat_history) = 2 * Len(submitted)
    /\ \A i \in 1..Len(submitted) :
        /\ chat_history[2 * i - 1] = Entry("user", Str(submitted[i]))
        /\ chat_history[2 * i].role = "assistant"
        /\ chat_history[2 * i].content.kind = "str"

C19_Witness ==
    /\ Len(submitted) = 3
    /\ Len(chat_history) = 6
    /\ chat_history[2] = Entry("assistant", ErrorGeneratingText)
    /\ chat_history[4] = Entry("assistant", NoModelText)
    /\ chat_history[5] = Entry("user", Str("convert to gbp"))
    /\ chat_history[6] = Entry("assistant", Answer("convert to gbp"))

\* C20: whenever the live table is shown, the "Last refreshed" time above it
\* is the time at which that table was fetched from the upstream, also when
\* the table comes from the cache (the first run of a new session, or a
\* currency selected again).
C20_LastRefreshedIsFetchTime ==
    (screen.rendered /\ screen.liveTable) =>
        screen.lastRefreshed = screen.live.rows.at

\* C21: a failed live-market fetch is kept like a successful one: after a
\* fetch for a currency has returned None, every run of the page for that
\* currency less than TTL seconds later shows the rate-limit warning and
\* stops, and no other fetch for that currency is made in that time, whatever
\* the upstream would answer by then; the next fetch comes TTL seconds after
\* the failed one at the earliest.
C21_FailedFetchIsMemoized ==
    \A f \in liveFetches :
        f.value = None =>
            /\ \A g \in liveFetches :
                (g.cur = f.cur /\ g # f) => Abs(g.at - f.at) >= TTL
            /\ (screen.rendered /\ screen.currency = f.cur
                    /\ f.at <= screen.at /\ screen.at - f.at < TTL) =>
                /\ screen.live = None
                /\ screen.rateLimitWarning
                /\ ~screen.liveTable
                /\ ~screen.candlestickSection
                /\ ~screen.ohlcFetched

\* usd failed at 0; at 30 the upstream answers (the eur fetch succeeds), and
\* the run for usd at 30 still shows the warning, without a fetch
C21_Witness ==
    /\ liveFetches =
        {[cur |-> "usd", at |-> 0, value |-> None],
         [cur |-> "eur", at |-> 30, value |-> Table(Market("eur", 30))]}
    /\ now = 30
    /\ screen.rendered
    /\ screen.currency = "usd"
    /\ screen.at = 30
    /\ screen.live = None
    /\ screen.rateLimitWarning
    /\ ~screen.ohlcFetched

====
